---- MODULE Spec2Model ----
(***************************************************************************)
(* Widget focus dispatch of futura: the Application (container) with its   *)
(* focus reference and tracking lists, and the Widget base class with its  *)
(* focus property, delete() and the input handlers it pushes on the        *)
(* window.  Widgets are the two kinds the library can construct and add:   *)
(* a group (a widget whose _create gives it children) and a leaf (a widget *)
(* with no children, such as a Label); both call Widget.__init__ from      *)
(* _create, as Image, Label and Button do.                                 *)
(*                                                                         *)
(* An uncaught Python exception ends the program: the state in which       *)
(* raised # "none" has no successor.                                       *)
(***************************************************************************)
EXTENDS Integers, Sequences, FiniteSets, TLC

\* ------------------------------------------------------------------ bounds
NumGroups == 3
NumLeaves == 1
MaxAddArgs == 2
MaxSteps == 3
MaxRectSteps == 2
MaxCoord == 2
MaxSize == 2
BarWidth == 12
KnobWidth == 4

\* ------------------------------------------------------ program constants
None == 0
\* key symbols and modifier bits of futura.key, as application.py uses them
TAB == 1
OTHER_KEY == TAB + 1
SHIFT == 1
CONTROL == 2
SPACE == OTHER_KEY + 1
ENTER == SPACE + 1
\* the callback modes of a Toggle
SINGLE == 1
DOUBLE == 2
MULTIPLE == 3
TOGGLE_VELOCITY == 2

Groups == 1 .. NumGroups
Leaves == (NumGroups + 1) .. (NumGroups + NumLeaves)
Widget == Groups \cup Leaves

\* A drawable child of a group: only its size is read (Rect._get_width).
Child == [width |-> 4, height |-> 2]

\* ------------------------------------------------------------------ state
VARIABLES
    focus,        \* Application.focus: a widget or None
    enable,       \* Application.enable
    widgets,      \* Application.widgets: the focusable list (Tab order)
    _widgets,     \* Application._widgets: every attached widget
    handlers,     \* the window's event stack: widgets whose handlers are
                  \* pushed, most recently pushed first
    application,  \* Widget.application is set (the single Application)
    _created,     \* Rect._created
    children,     \* Widget._children
    hover, press, drag, disable, last_press,
    create_log,   \* what each _create call saw, and how many there were
    dispatched,   \* semantic events dispatched by the last operation
    raised,       \* the exception the last operation ended with
    op,           \* the last operation and its arguments
    steps,        \* operations performed so far
    rect,         \* a Rect on its own: its fields, and the calls of its hooks
    pointlist,    \* geometry.pointlist: the Points created, with their x, y
    result,       \* what the last call on the Rect or on a Point returned
    toggle        \* a Toggle: its state, its knob and its bar

vars == <<focus, enable, widgets, _widgets, handlers, application, _created,
          children, hover, press, drag, disable, last_press, create_log,
          dispatched, raised, op, steps, rect, pointlist, result, toggle>>

\* --------------------------------------------------------------- helpers
Range(s) == {s[i] : i \in 1 .. Len(s)}

\* list.index(v): 0-based position of the first occurrence
RECURSIVE IndexFrom(_, _, _)
IndexFrom(s, v, i) ==
    IF i > Len(s) THEN -1
    ELSE IF s[i] = v THEN i - 1
    ELSE IndexFrom(s, v, i + 1)

index(s, v) == IndexFrom(s, v, 1)

\* list[i] with Python's negative indexing; i in -Len(s) .. Len(s)-1
getitem(s, i) == IF i < 0 THEN s[Len(s) + i + 1] ELSE s[i + 1]

\* ------------------------------------------------------------- geometry
\* Every widget is laid out on one row, 4 wide and 2 high, side by side.
x(w) == 4 * w
y(w) == 0
stored_width(w) == 4
stored_height(w) == 2

Point(px, py) == <<px, py>>

width(ch, w) == IF ch[w] # <<>> THEN ch[w][1].width ELSE stored_width(w)
height(ch, w) == IF ch[w] # <<>> THEN ch[w][1].height ELSE stored_height(w)

\* edges are kept doubled so that width / 2 stays an integer
left2(ch, w) == 2 * x(w) - width(ch, w)
right2(ch, w) == 2 * x(w) + width(ch, w)
top2(ch, w) == 2 * y(w) + height(ch, w)
bottom2(ch, w) == 2 * y(w) - height(ch, w)

check_collision(ch, w, point) ==
    /\ 2 * point[1] > left2(ch, w)
    /\ 2 * point[1] < right2(ch, w)
    /\ 2 * point[2] > bottom2(ch, w)
    /\ 2 * point[2] < top2(ch, w)

\* pointer positions of the input events: outside every widget, the centre
\* of each widget, and the right edge of the first widget
PointerPoints ==
    {Point(0, 0), Point(x(1) + 2, 0)} \cup {Point(x(w), 0) : w \in Widget}

\* ------------------------------------------------------------- Rect
\* A Rect as its class attributes leave it.  Positions (_x, _y, edges and
\* the coordinates of points) are kept in half units, twice the Python
\* value, so that width / 2 stays an integer; sizes are in whole units.
\* position_updates and size_updates record the calls of the hooks
\* _update_position and _update_size.
NewRect ==
    [_x |-> 0, _y |-> 0, _width |-> 0, _height |-> 0,
     _point |-> Point(0, 0), _created |-> FALSE, _need_update_position |-> FALSE,
     children |-> <<>>, position_updates |-> <<>>, size_updates |-> <<>>]

\* what a call returned: the type of the value and the value
Returns(type, value) == [type |-> type, value |-> value]

\* a child of the Rect: what hasattr finds on it, and the sizes it holds
RectChild(has_size, has_content, w, h) ==
    [has_size |-> has_size, has_content |-> has_content,
     width |-> w, height |-> h,
     content_width |-> w + 1, content_height |-> h + 1]

_get_x(r) == r._x
_get_y(r) == r._y

\* width read from the last child instead of the first
_get_width_last_child(r) ==
    IF r.children # <<>> /\ r.children[Len(r.children)].has_size
    THEN r.children[Len(r.children)].width
    ELSE IF r.children # <<>> /\ r.children[Len(r.children)].has_content
    THEN r.children[Len(r.children)].content_width
    ELSE r._width

_get_width(r) ==
    IF r.children # <<>> /\ r.children[1].has_size
    THEN r.children[1].width
    ELSE IF r.children # <<>> /\ r.children[1].has_content
    THEN r.children[1].content_width
    ELSE r._width

_get_height(r) ==
    IF r.children # <<>> /\ r.children[1].has_size
    THEN r.children[1].height
    ELSE IF r.children # <<>> /\ r.children[1].has_content
    THEN r.children[1].content_height
    ELSE r._height

\* the hooks of the base class do nothing; their calls are recorded
_update_position(r, px, py) ==
    [r EXCEPT !.position_updates = Append(@, <<px, py>>)]

_update_size(r, w, h) == [r EXCEPT !.size_updates = Append(@, <<w, h>>)]

\* x setter that calls the hook whether or not the Rect is created
_set_x_always_update(r, px) ==
    _update_position([r EXCEPT !._x = px], px, _get_y(r))

_set_x(r, px) ==
    LET r1 == [r EXCEPT !._x = px]
    IN  IF r1._created THEN _update_position(r1, px, _get_y(r1))
        ELSE [r1 EXCEPT !._need_update_position = TRUE]

_set_y(r, py) ==
    LET r1 == [r EXCEPT !._y = py]
    IN  IF r1._created THEN _update_position(r1, _get_x(r1), py)
        ELSE [r1 EXCEPT !._need_update_position = TRUE]

\* edges, in half units: x - width / 2 is (2x - width) / 2
_get_left(r) == _get_x(r) - _get_width(r)
\* left setter that stores the edge as the centre
_set_left_as_centre(r, left) == _set_x(r, left)

_set_left(r, left) == _set_x(r, left + _get_width(r))
\* right edge a whole width from the centre
_get_right_whole_width(r) == _get_x(r) + 2 * _get_width(r)

_get_right(r) == _get_x(r) + _get_width(r)
_set_right(r, right) == _set_x(r, right - _get_width(r))
_get_top(r) == _get_y(r) + _get_height(r)
_set_top(r, top) == _set_y(r, top - _get_height(r))
_get_bottom(r) == _get_y(r) - _get_height(r)
_set_bottom(r, bottom) == _set_y(r, bottom + _get_height(r))

\* caller: the name of the function that assigns (f_back.f_code.co_name)
_set_width(r, w, caller) ==
    IF caller # "__init__"
    THEN [_update_size(r, w, _get_height(r)) EXCEPT !._width = w]
    ELSE r

_set_height(r, h, caller) ==
    IF caller # "__init__"
    THEN [_update_size(r, _get_width(r), h) EXCEPT !._height = h]
    ELSE r

\* hit test that accepts the points on the edges
Rect_check_collision_closed(r, point) ==
    /\ point[1] >= _get_left(r)
    /\ point[1] <= _get_right(r)
    /\ point[2] >= _get_bottom(r)
    /\ point[2] <= _get_top(r)

Rect_check_collision(r, point) ==
    /\ point[1] > _get_left(r)
    /\ point[1] < _get_right(r)
    /\ point[2] > _get_bottom(r)
    /\ point[2] < _get_top(r)

\* get_distance(a, b) <= distance, with hypot compared by its square
\* (coordinates in half units, distance in whole units)
\* the point property: the getter reads the stored Point, which only the
\* setter of point replaces
_get_point(r) == r._point

_set_point(r, point) ==
    _set_y(_set_x([r EXCEPT !._point = point], point[1]), point[2])

get_distance_le(a, b, distance) ==
    /\ distance >= 0
    /\ (a[1] - b[1]) * (a[1] - b[1]) + (a[2] - b[2]) * (a[2] - b[2])
           <= (2 * distance) * (2 * distance)

\* snap that moves the Rect whatever move is
snap_to_point_move_always(r, point, distance, move) ==
    IF get_distance_le(<<_get_x(r), _get_y(r)>>, point, distance)
    THEN [rect |-> _set_y(_set_x(r, point[1]), point[2]),
          result |-> IF move THEN Returns("bool", <<TRUE>>)
                     ELSE Returns("Point", point)]
    ELSE [rect |-> r, result |-> Returns("NoneType", <<>>)]

\* returns the Rect after the call and what the call returned
snap_to_point(r, point, distance, move) ==
    IF get_distance_le(<<_get_x(r), _get_y(r)>>, point, distance)
    THEN IF move
         THEN [rect |-> _set_y(_set_x(r, point[1]), point[2]),
               result |-> Returns("bool", <<TRUE>>)]
         ELSE [rect |-> r, result |-> Returns("Point", point)]
    ELSE [rect |-> r, result |-> Returns("NoneType", <<>>)]

\* the corners are built as plain tuples, whose attribute x is then read
are_rects_intersecting(a, b) ==
    LET a_topright == <<_get_top(a), _get_right(a)>>
        a_bottomleft == <<_get_bottom(a), _get_left(a)>>
        b_bottomleft == <<_get_bottom(b), _get_left(b)>>
        b_topright == <<_get_top(b), _get_right(b)>>
    IN  [raised |-> "AttributeError", result |-> Returns("NoneType", <<>>)]

is_colliding(r, other) == are_rects_intersecting(r, other)

\* ------------------------------------------------------------ the Toggle
\* A Toggle is its class attributes on_left, on_right, value and switch,
\* its disable state, its callback mode, and two Images, the bar and the
\* knob, each a Rect as wide as its sprite.  value is <<>> for None, else
\* the one boolean.  What update only draws (the image, alpha and scale of
\* the bar and the knob) is left out.
NewToggle(callback) ==
    LET bar == [NewRect EXCEPT !._width = BarWidth]
        knob == [NewRect EXCEPT !._width = KnobWidth]
    IN  [on_left |-> TRUE, on_right |-> FALSE, value |-> <<>>,
         switch |-> FALSE, disable |-> FALSE, callback |-> callback,
         bar |-> bar, knob |-> _set_left(knob, _get_left(bar))]

\* modifiers & CONTROL, for the modifiers 0 and CONTROL
Toggle_on_press(t, modifiers) ==
    IF modifiers # CONTROL THEN [t EXCEPT !.switch = TRUE] ELSE t

Toggle_on_key(t, keys) ==
    IF keys = SPACE \/ keys = ENTER THEN [t EXCEPT !.switch = TRUE] ELSE t

\* update that dispatches on_toggle at the end of the travel and leaves
\* switch set
Toggle_update_keep_switch(t, space) ==
    LET t1 == [t EXCEPT !.value = <<t.on_left>>]
        t2 == IF t1.callback = MULTIPLE /\ space
              THEN [t1 EXCEPT !.switch = TRUE] ELSE t1
    IN  IF t2.switch /\ ~t2.disable
        THEN IF t2.on_left
             THEN IF _get_right(t2.knob) < _get_right(t2.bar) - 2 * 3
                  THEN [toggle |-> [t2 EXCEPT !.knob =
                            _set_x(@, _get_x(@) + 2 * TOGGLE_VELOCITY)],
                        dispatched |-> <<>>]
                  ELSE [toggle |-> [t2 EXCEPT !.on_right = TRUE,
                                              !.on_left = FALSE],
                        dispatched |-> <<<<"on_toggle", FALSE>>>>]
             ELSE IF t2.on_right
             THEN IF _get_left(t2.knob) > _get_left(t2.bar) + 2 * 2
                  THEN [toggle |-> [t2 EXCEPT !.knob =
                            _set_x(@, _get_x(@) - 2 * TOGGLE_VELOCITY)],
                        dispatched |-> <<>>]
                  ELSE [toggle |-> [t2 EXCEPT !.on_left = TRUE,
                                              !.on_right = FALSE],
                        dispatched |-> <<<<"on_toggle", TRUE>>>>]
             ELSE [toggle |-> t2, dispatched |-> <<>>]
        ELSE [toggle |-> t2, dispatched |-> <<>>]

\* space: keys[SPACE], whether the space bar is held.  Returns the Toggle
\* after the tick and the events it dispatched.  Positions are in half
\* units, as in the Rect.
Toggle_update(t, space) ==
    LET t1 == [t EXCEPT !.value = <<t.on_left>>]
        t2 == IF t1.callback = MULTIPLE /\ space
              THEN [t1 EXCEPT !.switch = TRUE] ELSE t1
    IN  IF t2.switch /\ ~t2.disable
        THEN IF t2.on_left
             THEN IF _get_right(t2.knob) < _get_right(t2.bar) - 2 * 3
                  THEN [toggle |-> [t2 EXCEPT !.knob =
                            _set_x(@, _get_x(@) + 2 * TOGGLE_VELOCITY)],
                        dispatched |-> <<>>]
                  ELSE [toggle |-> [t2 EXCEPT !.on_right = TRUE,
                                              !.on_left = FALSE,
                                              !.switch = FALSE],
                        dispatched |-> <<<<"on_toggle", FALSE>>>>]
             ELSE IF t2.on_right
             THEN IF _get_left(t2.knob) > _get_left(t2.bar) + 2 * 2
                  THEN [toggle |-> [t2 EXCEPT !.knob =
                            _set_x(@, _get_x(@) - 2 * TOGGLE_VELOCITY)],
                        dispatched |-> <<>>]
                  ELSE [toggle |-> [t2 EXCEPT !.on_left = TRUE,
                                              !.on_right = FALSE,
                                              !.switch = FALSE],
                        dispatched |-> <<<<"on_toggle", TRUE>>>>]
             ELSE [toggle |-> t2, dispatched |-> <<>>]
        ELSE [toggle |-> t2, dispatched |-> <<>>]

\* ---------------------------------------------------- the mutable record
\* Operations are evaluated on a record of the fields they may change, so
\* that a call inside a call (focus setter inside a handler) composes.
State ==
    [focus |-> focus, enable |-> enable, widgets |-> widgets,
     _widgets |-> _widgets, handlers |-> handlers,
     application |-> application, _created |-> _created,
     children |-> children, hover |-> hover, press |-> press,
     drag |-> drag, disable |-> disable, last_press |-> last_press,
     create_log |-> create_log, dispatched |-> <<>>, raised |-> "none"]

Raise(s, e) == IF s.raised = "none" THEN [s EXCEPT !.raised = e] ELSE s

dispatch_event(s, w, name) ==
    [s EXCEPT !.dispatched = Append(@, <<w, name>>)]

\* Application.added_widgets: the registered focusable widgets
added_widgets(s) == s.widgets

\* ---------------------------------------------------- Widget.focus
\* getter: every widget reads the Application's focus
focus_get(s, w) == s.focus

truthy(v) == v # None

\* setter, focus = False, without the check of the number of widgets
focus_set_false_unchecked(s, w) ==
    IF s.raised # "none" THEN s
    ELSE IF index(added_widgets(s), w) < 0 THEN Raise(s, "ValueError")
    ELSE [s EXCEPT !.focus =
              getitem(added_widgets(s), index(added_widgets(s), w) - 1)]

\* setter, focus = False, handing the focus to the next widget
focus_set_false_to_next(s, w) ==
    IF s.raised # "none" THEN s
    ELSE IF Len(added_widgets(s)) <= 1 THEN Raise(s, "ValueError")
    ELSE IF index(added_widgets(s), w) < 0 THEN Raise(s, "ValueError")
    ELSE [s EXCEPT !.focus =
              getitem(added_widgets(s),
                      (index(added_widgets(s), w) + 1)
                          % Len(added_widgets(s)))]

\* setter, focus = False
focus_set_false(s, w) ==
    IF s.raised # "none" THEN s
    ELSE IF Len(added_widgets(s)) <= 1 THEN Raise(s, "ValueError")
    ELSE IF index(added_widgets(s), w) < 0 THEN Raise(s, "ValueError")
    ELSE [s EXCEPT !.focus =
              getitem(added_widgets(s), index(added_widgets(s), w) - 1)]

\* the loop of the setter over the other widgets, from position i on
RECURSIVE focus_clear_others(_, _, _, _)
focus_clear_others(s, w, ws, i) ==
    IF i > Len(ws) \/ s.raised # "none" THEN s
    ELSE IF s.children[ws[i]] # <<>> /\ ws[i] # w
         THEN focus_clear_others(focus_set_false(s, ws[i]), w, ws, i + 1)
         ELSE focus_clear_others(s, w, ws, i + 1)

\* setter, focus = True
focus_set_true(s, w) ==
    IF s.raised # "none" THEN s
    ELSE LET s1 == dispatch_event([s EXCEPT !.focus = w], w, "on_focus")
         IN  focus_clear_others(s1, w, added_widgets(s1), 1)

focus_set(s, w, value) ==
    IF value THEN focus_set_true(s, w) ELSE focus_set_false(s, w)

\* ---------------------------------------------------- Widget.__init__
\* __init__ that puts the handlers at the bottom of the event stack
Widget_init_push_below(s, w) ==
    [s EXCEPT !.hover[w] = FALSE, !.press[w] = FALSE,
              !.disable[w] = FALSE, !.drag[w] = FALSE,
              !.children[w] = <<>>, !.last_press[w] = Point(0, 0),
              !.handlers = @ \o <<w>>]

Widget_init(s, w) ==
    [s EXCEPT !.hover[w] = FALSE, !.press[w] = FALSE,
              !.disable[w] = FALSE, !.drag[w] = FALSE,
              !.children[w] = <<>>, !.last_press[w] = Point(0, 0),
              !.handlers = <<w>> \o @]

\* Widget.children setter; a single drawable child is not a widget and is
\* not appended to _widgets
children_set(s, w, ch) == [s EXCEPT !.children[w] = ch]

\* _create of the two kinds: Widget.__init__, then a group sets children.
\* The log keeps what the call could observe of the widget.
_create(s, w) ==
    LET s1 == [s EXCEPT !.create_log[w] =
                   [count |-> @.count + 1,
                    application |-> s.application[w],
                    listed |-> w \in Range(s._widgets) \cup Range(s.widgets)]]
        s2 == Widget_init(s1, w)
    IN  IF w \in Groups THEN children_set(s2, w, <<Child>>) ELSE s2

\* ---------------------------------------------------- Application.add
\* add that appends every widget to the focusable list
add_one_every_widget_focusable(s, w) ==
    LET s1 == [s EXCEPT !.application[w] = TRUE]
        s2 == _create(s1, w)
        s3 == [s2 EXCEPT !._created[w] = TRUE]
        s4 == [s3 EXCEPT !.widgets = Append(@, w)]
    IN  [s4 EXCEPT !._widgets = Append(@, w)]

\* add that appends to _widgets before it calls _create
add_one_create_after_append(s, w) ==
    LET s1 == [s EXCEPT !.application[w] = TRUE, !._widgets = Append(@, w)]
        s2 == _create(s1, w)
        s3 == [s2 EXCEPT !._created[w] = TRUE]
    IN  IF s3.children[w] # <<>>
        THEN [s3 EXCEPT !.widgets = Append(@, w)] ELSE s3

add_one(s, w) ==
    LET s1 == [s EXCEPT !.application[w] = TRUE]
        s2 == _create(s1, w)
        s3 == [s2 EXCEPT !._created[w] = TRUE]
        s4 == IF s3.children[w] # <<>>
              THEN [s3 EXCEPT !.widgets = Append(@, w)] ELSE s3
    IN  [s4 EXCEPT !._widgets = Append(@, w)]

RECURSIVE add_loop(_, _, _)
add_loop(s, ws, i) ==
    IF i > Len(ws) THEN s ELSE add_loop(add_one(s, ws[i]), ws, i + 1)

\* add that focuses the first widget passed
add_focus_first(s, ws) ==
    LET s1 == add_loop(s, ws, 1)
    IN  IF Len(ws) = 0 THEN Raise(s1, "IndexError")
        ELSE [s1 EXCEPT !.focus = getitem(ws, 0)]

add(s, ws) ==
    LET s1 == add_loop(s, ws, 1)
    IN  IF Len(ws) = 0 THEN Raise(s1, "IndexError")
        ELSE [s1 EXCEPT !.focus = getitem(ws, -1)]

\* ---------------------------------------------------- commit of a record
Commit(s, o) ==
    /\ focus' = s.focus
    /\ enable' = s.enable
    /\ widgets' = s.widgets
    /\ _widgets' = s._widgets
    /\ handlers' = s.handlers
    /\ application' = s.application
    /\ _created' = s._created
    /\ children' = s.children
    /\ hover' = s.hover
    /\ press' = s.press
    /\ drag' = s.drag
    /\ disable' = s.disable
    /\ last_press' = s.last_press
    /\ create_log' = s.create_log
    /\ dispatched' = s.dispatched
    /\ raised' = s.raised
    /\ op' = o
    /\ steps' = steps + 1
    /\ UNCHANGED <<rect, pointlist, result, toggle>>

NoOp == [name |-> "init", w |-> None, ws |-> <<>>, point |-> Point(0, 0),
         tab |-> FALSE, shift |-> FALSE, value |-> FALSE,
         pre_focus |-> None]

\* the program is running: the last operation returned (and the run is
\* within the number of operations explored)
Running == raised = "none" /\ steps < MaxSteps

\* sequences of distinct widgets that are not attached yet.  Widgets of one
\* kind differ only in their name, so they are numbered in the order they
\* are attached: a widget is passed only after the lower-numbered widgets
\* of its kind (groups and leaves interleave freely).
AddArgs ==
    {ws \in UNION {[1 .. n -> Widget] : n \in 0 .. MaxAddArgs} :
        /\ \A i \in 1 .. Len(ws) : ~application[ws[i]]
        /\ \A i, j \in 1 .. Len(ws) : i # j => ws[i] # ws[j]
        /\ \A i \in 1 .. Len(ws) : \A v \in Widget :
              (v < ws[i] /\ (v \in Groups <=> ws[i] \in Groups))
                  => (application[v] \/ \E j \in 1 .. i - 1 : ws[j] = v)}

InitApplication ==
    /\ focus = None
    /\ enable = TRUE
    /\ widgets = <<>>
    /\ _widgets = <<>>
    /\ handlers = <<>>
    /\ application = [w \in Widget |-> FALSE]
    /\ _created = [w \in Widget |-> FALSE]
    /\ children = [w \in Widget |-> <<>>]
    /\ hover = [w \in Widget |-> FALSE]
    /\ press = [w \in Widget |-> FALSE]
    /\ drag = [w \in Widget |-> FALSE]
    /\ disable = [w \in Widget |-> FALSE]
    /\ last_press = [w \in Widget |-> Point(0, 0)]
    /\ create_log = [w \in Widget |->
                        [count |-> 0, application |-> FALSE, listed |-> FALSE]]
    /\ dispatched = <<>>
    /\ raised = "none"
    /\ op = NoOp
    /\ steps = 0
    /\ rect = NewRect
    /\ result = Returns("NoneType", <<>>)

Init ==
    /\ InitApplication
    /\ pointlist = <<>>
    /\ toggle = NewToggle(SINGLE)

\* ---------------------------------------------------- Widget.delete
remove_handlers(s, w) ==
    [s EXCEPT !.handlers = SelectSeq(@, LAMBDA v : v # w)]

\* delete that leaves the handlers on the window
delete_keep_handlers(s, w) ==
    focus_set([s EXCEPT !.disable[w] = TRUE], w, FALSE)

delete(s, w) ==
    LET s1 == [s EXCEPT !.disable[w] = TRUE]
        s2 == focus_set(s1, w, FALSE)
    IN  IF s2.raised # "none" THEN s2 ELSE remove_handlers(s2, w)

\* ---------------------------------------------------- Widget handlers
on_key_press(s, w, keys, modifiers) ==
    IF s.disable[w] \/ ~truthy(focus_get(s, w)) THEN s
    ELSE LET s1 == dispatch_event(s, w, "on_key")
         IN  IF truthy(focus_get(s1, w)) /\ s1.children[w] # <<>>
             THEN dispatch_event(s1, w, "on_focus")
             ELSE s1

on_key_release(s, w, keys, modifiers) ==
    IF s.disable[w] \/ ~truthy(focus_get(s, w)) THEN s
    ELSE dispatch_event([s EXCEPT !.press[w] = FALSE], w, "on_lift")

\* motion handler that never clears hover
on_mouse_motion_sticky(s, w, point) ==
    IF s.disable[w] THEN s
    ELSE IF check_collision(s.children, w, point)
         THEN dispatch_event([s EXCEPT !.hover[w] = TRUE], w, "on_hover")
         ELSE s

on_mouse_motion(s, w, point) ==
    IF s.disable[w] THEN s
    ELSE IF check_collision(s.children, w, point)
         THEN dispatch_event([s EXCEPT !.hover[w] = TRUE], w, "on_hover")
         ELSE [s EXCEPT !.hover[w] = FALSE]

\* press handler that sets press without the hit test
on_mouse_press_no_hit_test(s, w, point) ==
    IF s.disable[w] THEN s
    ELSE LET s1 == [s EXCEPT !.last_press[w] = point, !.press[w] = TRUE]
         IN  IF ~check_collision(s1.children, w, point) THEN s1
             ELSE LET s3 == IF s1.children[w] # <<>>
                            THEN focus_set(s1, w, TRUE) ELSE s1
                  IN  IF s3.raised # "none" THEN s3
                      ELSE dispatch_event(
                               dispatch_event(s3, w, "on_press"),
                               w, "on_focus")

on_mouse_press(s, w, point) ==
    IF s.disable[w] THEN s
    ELSE LET s1 == [s EXCEPT !.last_press[w] = point]
         IN  IF ~check_collision(s1.children, w, point) THEN s1
             ELSE LET s2 == [s1 EXCEPT !.press[w] = TRUE]
                      s3 == IF s2.children[w] # <<>>
                            THEN focus_set(s2, w, TRUE) ELSE s2
                  IN  IF s3.raised # "none" THEN s3
                      ELSE dispatch_event(
                               dispatch_event(s3, w, "on_press"),
                               w, "on_focus")

\* release handler that leaves drag as it is
on_mouse_release_keep_drag(s, w, point) ==
    IF s.disable[w] THEN s
    ELSE dispatch_event([s EXCEPT !.press[w] = FALSE], w, "on_release")

\* release handler without the disable check
on_mouse_release_unguarded(s, w, point) ==
    dispatch_event([s EXCEPT !.press[w] = FALSE, !.drag[w] = FALSE],
                   w, "on_release")

on_mouse_release(s, w, point) ==
    IF s.disable[w] THEN s
    ELSE dispatch_event([s EXCEPT !.press[w] = FALSE, !.drag[w] = FALSE],
                        w, "on_release")

on_mouse_drag(s, w, point) ==
    IF s.disable[w] THEN s
    ELSE IF /\ ~check_collision(s.children, w, point)
            /\ ~check_collision(s.children, w, s.last_press[w])
         THEN s
         ELSE LET s1 == [s EXCEPT !.drag[w] = TRUE]
              IN  IF check_collision(s1.children, w, point)
                  THEN dispatch_event(s1, w, "on_drag") ELSE s1

on_mouse_scroll(s, w, point) ==
    IF s.disable[w] THEN s
    ELSE IF check_collision(s.children, w, point) /\ ~s.disable[w]
         THEN dispatch_event(s, w, "on_scroll")
         ELSE s

\* update handler that does not consult Application.enable
on_update_ignore_enable(s, w) ==
    IF s.application[w] THEN dispatch_event(s, w, "update") ELSE s

\* (the frames counter, which the base class only increments, is left out)
on_update(s, w) ==
    LET s1 == IF s.application[w] /\ ~s.enable
              THEN [s EXCEPT !.disable[w] = TRUE] ELSE s
    IN  IF s1.application[w] THEN dispatch_event(s1, w, "update") ELSE s1

InputEvents == {"key_press", "key_release", "mouse_motion", "mouse_press",
                "mouse_release", "mouse_drag", "mouse_scroll"}

\* the handler of widget w for one window event
handle(s, w, e) ==
    CASE e.name = "key_press" -> on_key_press(s, w, e.keys, e.modifiers)
      [] e.name = "key_release" -> on_key_release(s, w, e.keys, e.modifiers)
      [] e.name = "mouse_motion" -> on_mouse_motion(s, w, e.point)
      [] e.name = "mouse_press" -> on_mouse_press(s, w, e.point)
      [] e.name = "mouse_release" -> on_mouse_release(s, w, e.point)
      [] e.name = "mouse_drag" -> on_mouse_drag(s, w, e.point)
      [] e.name = "mouse_scroll" -> on_mouse_scroll(s, w, e.point)
      [] e.name = "update" -> on_update(s, w)

\* The window runs the pushed handlers from the top of its event stack as
\* it stood when the event arrived; an exception ends the dispatch.
RECURSIVE broadcast(_, _, _, _)
broadcast(s, stack, i, e) ==
    IF i > Len(stack) \/ s.raised # "none" THEN s
    ELSE broadcast(handle(s, stack[i], e), stack, i + 1, e)

\* ---------------------------------------------- Application.on_key_press
RECURSIVE tab_clear_others(_, _)
tab_clear_others(s, i) ==
    IF i > Len(s.widgets) \/ s.raised # "none" THEN s
    ELSE IF s.widgets[i] # s.focus /\ s.children[s.widgets[i]] # <<>>
         THEN tab_clear_others(focus_set(s, s.widgets[i], FALSE), i + 1)
         ELSE tab_clear_others(s, i + 1)

direction(modifiers) == IF modifiers = SHIFT THEN -1 ELSE 1

Application_on_key_press(s, keys, modifiers) ==
    IF s.raised # "none" \/ keys # TAB THEN s
    ELSE LET member == index(s.widgets, s.focus) >= 0
             i == IF member THEN index(s.widgets, s.focus) ELSE 0
             d == IF member THEN direction(modifiers) ELSE 0
         IN  IF Len(s.widgets) = 0 THEN Raise(s, "ZeroDivisionError")
             ELSE LET s1 == [s EXCEPT !.focus =
                                 getitem(s.widgets,
                                         (i + d) % Len(s.widgets))]
                      s2 == IF s1.children[s1.focus] # <<>>
                            THEN focus_set(s1, s1.focus, TRUE) ELSE s1
                  IN  tab_clear_others(s2, 1)

\* ---------------------------------------------------- Application.exit
RECURSIVE exit_loop(_, _, _)
exit_loop(s, ws, i) ==
    IF i > Len(ws) \/ s.raised # "none" THEN s
    ELSE exit_loop(delete(s, ws[i]), ws, i + 1)

exit(s) ==
    LET s1 == exit_loop(s, s.widgets, 1)
    IN  IF s1.raised # "none" THEN s1
        ELSE [s1 EXCEPT !.widgets = <<>>, !.enable = FALSE]

Add ==
    /\ Running
    /\ \E ws \in AddArgs :
          Commit(add(State, ws),
                 [NoOp EXCEPT !.name = "add", !.ws = ws, !.pre_focus = focus])

\* a key event of the window: the pushed widget handlers, then the
\* Application's own on_key_press
KeyPress ==
    /\ Running
    /\ \E keys \in {TAB, OTHER_KEY}, modifiers \in {0, SHIFT} :
          LET e == [name |-> "key_press", keys |-> keys,
                    modifiers |-> modifiers]
          IN  Commit(Application_on_key_press(
                         broadcast(State, handlers, 1, e), keys, modifiers),
                     [NoOp EXCEPT !.name = "key_press",
                                  !.tab = (keys = TAB),
                                  !.shift = (modifiers = SHIFT),
                                  !.pre_focus = focus])

KeyRelease ==
    /\ Running
    /\ LET e == [name |-> "key_release", keys |-> OTHER_KEY, modifiers |-> 0]
       IN  Commit(broadcast(State, handlers, 1, e),
                  [NoOp EXCEPT !.name = "key_release", !.pre_focus = focus])

MousePress ==
    /\ Running
    /\ \E point \in PointerPoints :
          Commit(broadcast(State, handlers, 1,
                           [name |-> "mouse_press", point |-> point]),
                 [NoOp EXCEPT !.name = "mouse_press", !.point = point,
                              !.pre_focus = focus])

MouseOther ==
    /\ Running
    /\ \E n \in {"mouse_motion", "mouse_release", "mouse_drag",
                 "mouse_scroll"}, point \in PointerPoints :
          Commit(broadcast(State, handlers, 1, [name |-> n, point |-> point]),
                 [NoOp EXCEPT !.name = n, !.point = point,
                              !.pre_focus = focus])

Update ==
    /\ Running
    /\ Commit(broadcast(State, handlers, 1, [name |-> "update"]),
              [NoOp EXCEPT !.name = "update", !.pre_focus = focus])

\* the program assigns widget.focus
AssignFocus ==
    /\ Running
    /\ \E w \in Widget, value \in BOOLEAN :
          /\ application[w]
          /\ Commit(focus_set(State, w, value),
                    [NoOp EXCEPT !.name = "focus", !.w = w, !.value = value,
                                 !.pre_focus = focus])

\* the program disables a widget
AssignDisable ==
    /\ Running
    /\ \E w \in Widget :
          /\ _created[w]
          /\ ~disable[w]
          /\ Commit([State EXCEPT !.disable[w] = TRUE],
                    [NoOp EXCEPT !.name = "disable", !.w = w,
                                 !.pre_focus = focus])

Delete ==
    /\ Running
    /\ \E w \in Widget :
          /\ application[w]
          /\ w \in Range(handlers)
          /\ Commit(delete(State, w),
                    [NoOp EXCEPT !.name = "delete", !.w = w,
                                 !.pre_focus = focus])

Exit ==
    /\ Running
    /\ enable
    /\ Commit(exit(State), [NoOp EXCEPT !.name = "exit", !.pre_focus = focus])

Next ==
    \/ Add
    \/ KeyPress
    \/ MousePress
    \/ AssignFocus
    \/ Delete
    \/ Exit

Spec == Init /\ [][Next]_vars

NextInput ==
    \/ Add
    \/ KeyPress
    \/ KeyRelease
    \/ MousePress
    \/ MouseOther
    \/ Update
    \/ AssignDisable
    \/ Delete
    \/ Exit

SpecInput == Init /\ [][NextInput]_vars

\* attaching, traversal, mouse presses, delete and exit only
NextTraversal ==
    \/ Add
    \/ KeyPress
    \/ MousePress
    \/ Delete
    \/ Exit

SpecTraversal == Init /\ [][NextTraversal]_vars

\* ================================================== the Rect on its own
\* inputs of the calls on the Rect
Coords == (0 - MaxCoord) .. MaxCoord
Sizes == -1 .. MaxSize
SnapPoints == {Point(a, b) : a, b \in {0 - MaxCoord, 0, MaxCoord}}
Distances == -1 .. (MaxCoord \div 2)

RectChildSet ==
    {RectChild(hs, hc, d[1], d[2]) :
        hs, hc \in BOOLEAN, d \in {<<1, MaxSize + 1>>, <<MaxSize + 1, 1>>}}

OtherChild == RectChild(TRUE, FALSE, MaxSize + 2, MaxSize + 2)

ChildrenArgs ==
    {<<>>} \cup {<<c>> : c \in RectChildSet}
           \cup {<<c, OtherChild>> : c \in RectChildSet}

\* the other Rect of is_colliding
OtherRects ==
    {[NewRect EXCEPT !._x = px, !._width = w, !._height = w] :
        px \in {0, MaxCoord}, w \in {0, MaxSize}}

RectRunning == raised = "none" /\ steps < MaxRectSteps

RectOp == [name |-> "init", value |-> 0, point |-> Point(0, 0),
           distance |-> 0, move |-> FALSE, caller |-> "",
           pre |-> NewRect]

RectCommit(r, res, exc, o) ==
    /\ rect' = r
    /\ result' = res
    /\ raised' = exc
    /\ op' = [o EXCEPT !.pre = rect]
    /\ steps' = steps + 1
    /\ UNCHANGED <<focus, enable, widgets, _widgets, handlers, application,
                   _created, children, hover, press, drag, disable,
                   last_press, create_log, dispatched, pointlist, toggle>>

Assigned(r, o) == RectCommit(r, Returns("NoneType", <<>>), "none", o)

\* rect.x = v, rect.y = v
RectSetPosition ==
    /\ RectRunning
    /\ \E v \in Coords :
          \/ Assigned(_set_x(rect, v),
                      [RectOp EXCEPT !.name = "x", !.value = v])
          \/ Assigned(_set_y(rect, v),
                      [RectOp EXCEPT !.name = "y", !.value = v])

\* rect.point = Point(...)
RectSetPoint ==
    /\ RectRunning
    /\ \E point \in {Point(0 - MaxCoord, 0), Point(MaxCoord, MaxCoord)} :
          Assigned(_set_point(rect, point),
                   [RectOp EXCEPT !.name = "point", !.point = point])

\* rect.left = v, and likewise right, top and bottom
RectSetEdge ==
    /\ RectRunning
    /\ \E v \in Coords :
          \/ Assigned(_set_left(rect, v),
                      [RectOp EXCEPT !.name = "left", !.value = v])
          \/ Assigned(_set_right(rect, v),
                      [RectOp EXCEPT !.name = "right", !.value = v])
          \/ Assigned(_set_top(rect, v),
                      [RectOp EXCEPT !.name = "top", !.value = v])
          \/ Assigned(_set_bottom(rect, v),
                      [RectOp EXCEPT !.name = "bottom", !.value = v])

\* rect.width = v, rect.height = v, from __init__ or from another function
RectSetSize ==
    /\ RectRunning
    /\ \E v \in Sizes, caller \in {"__init__", "_create"} :
          \/ Assigned(_set_width(rect, v, caller),
                      [RectOp EXCEPT !.name = "width", !.value = v,
                                     !.caller = caller])
          \/ Assigned(_set_height(rect, v, caller),
                      [RectOp EXCEPT !.name = "height", !.value = v,
                                     !.caller = caller])

\* rect.children = [...]
RectSetChildren ==
    /\ RectRunning
    /\ \E ch \in ChildrenArgs :
          Assigned([rect EXCEPT !.children = ch],
                   [RectOp EXCEPT !.name = "children"])

\* Application.add marks the Rect created
RectCreated ==
    /\ RectRunning
    /\ ~rect._created
    /\ Assigned([rect EXCEPT !._created = TRUE],
                [RectOp EXCEPT !.name = "_created"])

RectSnapToPoint ==
    /\ RectRunning
    /\ \E point \in SnapPoints, distance \in Distances, move \in BOOLEAN :
          LET r == snap_to_point(rect, point, distance, move)
          IN  RectCommit(r.rect, r.result, "none",
                         [RectOp EXCEPT !.name = "snap_to_point",
                                        !.point = point,
                                        !.distance = distance,
                                        !.move = move])

RectIsColliding ==
    /\ RectRunning
    /\ \E other \in OtherRects :
          LET r == is_colliding(rect, other)
          IN  RectCommit(rect, r.result, r.raised,
                         [RectOp EXCEPT !.name = "is_colliding",
                                        !.value = other])

NextRect ==
    \/ RectSetPosition
    \/ RectSetPoint
    \/ RectSetEdge
    \/ RectSetSize
    \/ RectSetChildren
    \/ RectCreated
    \/ RectSnapToPoint
    \/ RectIsColliding

SpecRect == Init /\ [][NextRect]_vars

\* ================================================= geometry: the Point
\* A Point is its x and y.  The calls are made on pointlist[1], with
\* pointlist[2] (or the tuple of its coordinates) as the other operand.
NewPoint(px, py) == [x |-> px, y |-> py]

\* what a call on a Point leaves: the Point, the value returned and the
\* exception raised
Outcome(pt, res, exc) == [point |-> pt, result |-> res, raised |-> exc]

\* the getter of the position property reads the property itself, so the
\* read never returns: the interpreter ends it with RecursionError
_get_position(pt) ==
    Outcome(pt, Returns("NoneType", <<>>), "RecursionError")

\* operand: [kind |-> "Point" or "tuple", x, y]
__add__(pt, operand) ==
    LET sum == NewPoint(pt.x + operand.x, pt.y + operand.y)
    IN  IF operand.kind = "tuple"
        THEN Outcome(sum, Returns("NoneType", <<>>), "none")
        ELSE _get_position(sum)

__sub__(pt, operand) ==
    LET difference == NewPoint(pt.x - operand.x, pt.y - operand.y)
    IN  IF operand.kind = "tuple"
        THEN Outcome(difference, Returns("NoneType", <<>>), "none")
        ELSE _get_position(difference)

\* sqrt(x^2 + y^2), for the Points whose length is a whole number
_get_length(pt) ==
    CHOOSE n \in 0 .. (pt.x * pt.x + pt.y * pt.y) :
        n * n = pt.x * pt.x + pt.y * pt.y

__truediv__(pt, value) ==
    _get_position(NewPoint(pt.x \div value, pt.y \div value))

normalized(pt) ==
    LET length == _get_length(pt)
    IN  IF length # 0 THEN __truediv__(pt, length) ELSE _get_position(pt)

\* perpendicular that keeps the old x for the new y
perpendicular_from_old_x(pt) ==
    _get_position(NewPoint(0 - pt.y, pt.x))

\* self.x = -self.y, then self.y = self.x reads the x just assigned
perpendicular(pt) ==
    LET x1 == 0 - pt.y
    IN  _get_position(NewPoint(x1, x1))

\* the new y is computed from the x just assigned
perpendicular_normal(pt) ==
    LET length == _get_length(pt)
    IN  IF length # 0
        THEN LET x1 == (0 - pt.y) \div length
             IN  _get_position(NewPoint(x1, x1 \div length))
        ELSE _get_position(pt)

\* ---------------------------------------- geometry: polygon intersection
\* sys.modules is a dict; the test "shapely" in modules() calls it
modules == "TypeError"

RECURSIVE project_min(_, _, _, _), project_max(_, _, _, _)
\* the smallest and the largest projection of the points of a polygon
\* from position i on; none is None before the first point
project_min(polygon, normal, i, least) ==
    IF i > Len(polygon) THEN least
    ELSE LET projected == normal[1] * polygon[i][1]
                              + normal[2] * polygon[i][2]
         IN  project_min(polygon, normal, i + 1,
                         IF least = <<>> \/ projected < least[1]
                         THEN <<projected>> ELSE least)

project_max(polygon, normal, i, most) ==
    IF i > Len(polygon) THEN most
    ELSE LET projected == normal[1] * polygon[i][1]
                              + normal[2] * polygon[i][2]
         IN  project_max(polygon, normal, i + 1,
                         IF most = <<>> \/ projected > most[1]
                         THEN <<projected>> ELSE most)

\* one edge of polygon separates a and b
separated(polygon, i1, a, b) ==
    LET i2 == (i1 % Len(polygon)) + 1
        projection_1 == polygon[i1]
        projection_2 == polygon[i2]
        normal == <<projection_2[2] - projection_1[2],
                    projection_1[1] - projection_2[1]>>
        min_a == project_min(a, normal, 1, <<>>)[1]
        max_a == project_max(a, normal, 1, <<>>)[1]
        min_b == project_min(b, normal, 1, <<>>)[1]
        max_b == project_max(b, normal, 1, <<>>)[1]
    IN  max_a <= min_b \/ max_b <= min_a

are_polygons_intersecting(a, b, shapely) ==
    IF shapely
    THEN [raised |-> modules, result |-> Returns("NoneType", <<>>)]
    ELSE [raised |-> "none",
          result |-> Returns("bool",
              <<~(\/ \E i1 \in 1 .. Len(a) : separated(a, i1, a, b)
                  \/ \E i1 \in 1 .. Len(b) : separated(b, i1, a, b))>>)]

\* ------------------------------------------ geometry: point in polygon
\* polygon[0] is read before the length is tested; with shapely the test
\* of the loaded modules raises; without it the first of the length + 1
\* rounds of the loop reads points[i % length], where points is the
\* module's count of Points, a number, which has no items
is_point_in_polygon(point, polygon, shapely) ==
    IF Len(polygon) = 0
    THEN [raised |-> "IndexError", result |-> Returns("NoneType", <<>>)]
    ELSE IF shapely
         THEN [raised |-> modules, result |-> Returns("NoneType", <<>>)]
         ELSE [raised |-> "TypeError", result |-> Returns("NoneType", <<>>)]

\* ------------------------------------------------- geometry: the calls
PointValues == {NewPoint(a, b) : a, b \in Coords}

\* the unit square with its lower left corner at (px, py)
UnitSquare(px, py) ==
    <<<<px, py>>, <<px + 1, py>>, <<px + 1, py + 1>>, <<px, py + 1>>>>

InitGeometry ==
    /\ InitApplication
    /\ pointlist \in {<<p1, p2>> : p1, p2 \in PointValues}
    /\ toggle = NewToggle(SINGLE)

\* each call is applied once to the Points drawn
GeometryRunning == raised = "none" /\ steps = 0

GeometryOp == [name |-> "init", pre |-> NewPoint(0, 0), operand |-> "Point",
               a |-> <<>>, b |-> <<>>, shapely |-> FALSE,
               point |-> NewPoint(0, 0)]

GeometryCommit(points, res, exc, o) ==
    /\ pointlist' = points
    /\ result' = res
    /\ raised' = exc
    /\ op' = o
    /\ steps' = steps + 1
    /\ UNCHANGED <<focus, enable, widgets, _widgets, handlers, application,
                   _created, children, hover, press, drag, disable,
                   last_press, create_log, dispatched, rect, toggle>>

PointCommit(r, o) ==
    GeometryCommit([pointlist EXCEPT ![1] = r.point], r.result, r.raised,
                   [o EXCEPT !.pre = pointlist[1]])

\* pointlist[1] + pointlist[2], pointlist[1] - pointlist[2], with the
\* right operand a Point or a tuple
PointArithmetic ==
    /\ GeometryRunning
    /\ \E kind \in {"Point", "tuple"} :
          LET operand == [kind |-> kind, x |-> pointlist[2].x,
                          y |-> pointlist[2].y]
          IN  \/ PointCommit(__add__(pointlist[1], operand),
                             [GeometryOp EXCEPT !.name = "__add__",
                                                !.operand = kind])
              \/ PointCommit(__sub__(pointlist[1], operand),
                             [GeometryOp EXCEPT !.name = "__sub__",
                                                !.operand = kind])

PointNormalized ==
    /\ GeometryRunning
    /\ pointlist[1].x = 0 \/ pointlist[1].y = 0
    /\ PointCommit(normalized(pointlist[1]),
                   [GeometryOp EXCEPT !.name = "normalized"])

PointPerpendicularNormal ==
    /\ GeometryRunning
    /\ \/ pointlist[1].y = 0
       \/ pointlist[1].x = 0 /\ pointlist[1].y \in {-1, 1}
    /\ PointCommit(perpendicular_normal(pointlist[1]),
                   [GeometryOp EXCEPT !.name = "perpendicular_normal"])

PointPerpendicular ==
    /\ GeometryRunning
    /\ PointCommit(perpendicular(pointlist[1]),
                   [GeometryOp EXCEPT !.name = "perpendicular"])

\* the polygons tested: none, and the boxes with a corner at the origin
Polygons ==
    {<<>>} \cup {<<<<0, 0>>, <<w, 0>>, <<w, h>>, <<0, h>>>> :
                    w, h \in 1 .. MaxSize}

\* pointlist[1] against a polygon
PointInPolygon ==
    /\ GeometryRunning
    /\ \E polygon \in Polygons, shapely \in BOOLEAN :
          LET r == is_point_in_polygon(pointlist[1], polygon, shapely)
          IN  GeometryCommit(pointlist, r.result, r.raised,
                             [GeometryOp EXCEPT
                                 !.name = "is_point_in_polygon",
                                 !.a = polygon, !.shapely = shapely,
                                 !.point = pointlist[1]])

\* a unit square at the origin against a unit square within reach
PolygonsIntersecting ==
    /\ GeometryRunning
    /\ \E px, py \in Coords, shapely \in BOOLEAN :
          LET a == UnitSquare(0, 0)
              b == UnitSquare(px, py)
              r == are_polygons_intersecting(a, b, shapely)
          IN  GeometryCommit(pointlist, r.result, r.raised,
                             [GeometryOp EXCEPT
                                 !.name = "are_polygons_intersecting",
                                 !.a = a, !.b = b, !.shapely = shapely])

NextGeometry ==
    \/ PointArithmetic
    \/ PointPerpendicular
    \/ PointInPolygon
    \/ PointNormalized
    \/ PointPerpendicularNormal
    \/ PolygonsIntersecting

SpecGeometry == InitGeometry /\ [][NextGeometry]_vars

\* ================================================ the Toggle: the calls
\* The Toggle is attached and the window sends it events for as long as
\* the program runs, so these steps are not counted.  op keeps, for the
\* switch under way, the side it started from and the number of on_toggle
\* events dispatched since it was requested (counted up to 2).
ToggleOp == [name |-> "init", from_left |-> TRUE, toggled |-> 0]

\* what op keeps of the switch under way; nothing before the first event
ToggleHistory == IF op.name = "init" THEN ToggleOp ELSE op

\* the switch is requested: the count starts again when none is under way
Request(t, o) ==
    IF t.switch THEN o ELSE [o EXCEPT !.from_left = t.on_left, !.toggled = 0]

ToggleCommit(t, events, o) ==
    /\ toggle' = t
    /\ dispatched' = events
    /\ op' = o
    /\ UNCHANGED <<focus, enable, widgets, _widgets, handlers, application,
                   _created, children, hover, press, drag, disable,
                   last_press, create_log, raised, steps, rect, pointlist,
                   result>>

InitToggle ==
    /\ InitApplication
    /\ pointlist = <<>>
    /\ toggle \in {NewToggle(callback) :
                      callback \in {SINGLE, DOUBLE, MULTIPLE}}

\* a mouse press on the Toggle: Widget.on_mouse_press dispatches on_press
\* unless the widget is disabled
TogglePress ==
    /\ ~toggle.disable
    /\ \E modifiers \in {0, CONTROL} :
          LET t == Toggle_on_press(toggle, modifiers)
          IN  ToggleCommit(t, <<>>,
                  [(IF t.switch THEN Request(toggle, ToggleHistory)
                    ELSE ToggleHistory) EXCEPT !.name = "on_press"])

\* a key press with the Toggle in focus: Widget.on_key_press dispatches
\* on_key unless the widget is disabled
ToggleKey ==
    /\ ~toggle.disable
    /\ \E keys \in {SPACE, ENTER, OTHER_KEY} :
          LET t == Toggle_on_key(toggle, keys)
          IN  ToggleCommit(t, <<>>,
                  [(IF t.switch THEN Request(toggle, ToggleHistory)
                    ELSE ToggleHistory) EXCEPT !.name = "on_key"])

\* the tick: Widget.on_update dispatches update
ToggleUpdate ==
    \E space \in BOOLEAN :
        LET r == Toggle_update(toggle, space)
            requested == toggle.callback = MULTIPLE /\ space
            o == IF requested THEN Request(toggle, ToggleHistory)
                 ELSE ToggleHistory
            n == o.toggled + Len(r.dispatched)
        IN  ToggleCommit(r.toggle, r.dispatched,
                [o EXCEPT !.name = "update",
                          !.toggled = IF n > 2 THEN 2 ELSE n])

\* the program disables the Toggle or enables it again
ToggleSetDisable ==
    \E value \in BOOLEAN :
        /\ value # toggle.disable
        /\ ToggleCommit([toggle EXCEPT !.disable = value], <<>>,
                        [ToggleHistory EXCEPT !.name = "disable"])

NextToggle ==
    \/ TogglePress
    \/ ToggleKey
    \/ ToggleUpdate
    \/ ToggleSetDisable

\* the window calls on_update with every frame
SpecToggle ==
    InitToggle /\ [][NextToggle]_vars /\ WF_vars(ToggleUpdate)

\* ============================================ geometry: check_collision
\* A sprite is an object of the rendering library: its identity, its
\* position and its collision_radius.  A collection is
\* [kind, spatial_hash, items]: kind is the class isinstance finds
\* ("Sprite", "SpriteList", "List" or "other"), items holds the sprite of a
\* "Sprite", the sprites of a "SpriteList", the lists of a "List".
NewSprite(id, position, collision_radius) ==
    [id |-> id, position |-> position,
     collision_radius |-> collision_radius]

square(value) == value * value

\* the largest collection the automatic method checks sprite by sprite
SIMPLE_CHECK_LIMIT == 1500

\* what a collision check leaves: the value returned, the exception
\* raised, and the way the candidates were selected
Checked(res, exc, path) == [result |-> res, raised |-> exc, path |-> path]

\* the hit box the library reports for a sprite
get_adjusted_hit_box(sprite) ==
    UnitSquare(sprite.position[1], sprite.position[2])

\* False when the sprites are further apart than their radii; otherwise
\* the polygon test, called with its default shapely=True
_check_collision(a, b) ==
    LET collision_radius == a.collision_radius + b.collision_radius
        diff_x2 == square(a.position[1] - b.position[1])
        diff_y2 == square(a.position[2] - b.position[2])
        distance == diff_x2 + diff_y2
        far == [raised |-> "none", result |-> Returns("bool", <<FALSE>>)]
    IN  IF diff_x2 > collision_radius * collision_radius THEN far
        ELSE IF diff_y2 > square(collision_radius) THEN far
        ELSE IF distance > square(collision_radius) THEN far
        ELSE are_polygons_intersecting(get_adjusted_hit_box(a),
                                       get_adjusted_hit_box(b), TRUE)

\* [sprite for sprite in candidates if <test> and _check_collision(a,
\* sprite)], where <test> leaves a itself out when skip_self is set; the
\* first check that raises ends the comprehension
collisions(a, candidates, skip_self) ==
    LET checks == [i \in 1 .. Len(candidates) |->
                      IF skip_self /\ candidates[i].id = a.id
                      THEN [raised |-> "none",
                            result |-> Returns("bool", <<FALSE>>)]
                      ELSE _check_collision(a, candidates[i])]
        raising == {i \in 1 .. Len(candidates) : checks[i].raised # "none"}
    IN  IF raising # {}
        THEN [raised |-> checks[CHOOSE i \in raising :
                                   \A j \in raising : i <= j].raised,
              result |-> Returns("NoneType", <<>>)]
        ELSE LET hits == SelectSeq([i \in 1 .. Len(candidates) |-> i],
                                   LAMBDA i :
                                       checks[i].result.value = <<TRUE>>)
             IN  [raised |-> "none",
                  result |-> Returns("list",
                      [k \in 1 .. Len(hits) |-> candidates[hits[k]]])]

\* get_nearby_sprites: nothing for an empty list, otherwise the sprites
\* the transform on the GPU emits (nearby)
get_nearby_sprites(object, list, nearby) ==
    IF Len(list) = 0 THEN <<>> ELSE nearby

RECURSIVE flatten(_, _)
flatten(lists, i) ==
    IF i > Len(lists) THEN <<>> ELSE lists[i] \o flatten(lists, i + 1)

\* check_collision with method always selecting the sprite-by-sprite
\* check for collections within the limit
geometry_check_collision_size_first(a, b, type, method, nearby) ==
    LET kind == IF type # "None" THEN type ELSE b.kind
    IN  CASE kind = "Sprite" ->
               LET r == _check_collision(a, b.items[1])
               IN  Checked(r.result, r.raised, "single")
          [] kind = "SpriteList" ->
               LET path == IF method = 3
                              \/ (method = 0
                                    /\ Len(b.items) <= SIMPLE_CHECK_LIMIT)
                           THEN "simple"
                           ELSE IF b.spatial_hash /\ method \in {0, 1}
                                THEN "spatial" ELSE "gpu"
                   b_ == CASE path = "spatial" -> nearby
                           [] path = "simple" -> b.items
                           [] path = "gpu" ->
                                get_nearby_sprites(a, b.items, nearby)
                   r == collisions(a, b_, FALSE)
               IN  Checked(r.result, r.raised, path)
          [] kind = "List" ->
               LET r == collisions(a, flatten(b.items, 1), TRUE)
               IN  Checked(r.result, r.raised, "nested")
          [] OTHER -> Checked(Returns("NoneType", <<>>), "none", "none")

\* type: "None", or the class the caller names.  In the SpriteList branch
\* "a is not b" compares the sprite with the collection, which is never
\* the same object.
geometry_check_collision(a, b, type, method, nearby) ==
    LET kind == IF type # "None" THEN type ELSE b.kind
    IN  CASE kind = "Sprite" ->
               LET r == _check_collision(a, b.items[1])
               IN  Checked(r.result, r.raised, "single")
          [] kind = "SpriteList" ->
               LET path == IF b.spatial_hash /\ method \in {0, 1}
                           THEN "spatial"
                           ELSE IF method = 3
                                   \/ (method = 0
                                         /\ Len(b.items)
                                                <= SIMPLE_CHECK_LIMIT)
                                THEN "simple" ELSE "gpu"
                   b_ == CASE path = "spatial" -> nearby
                           [] path = "simple" -> b.items
                           [] path = "gpu" ->
                                get_nearby_sprites(a, b.items, nearby)
                   r == collisions(a, b_, FALSE)
               IN  Checked(r.result, r.raised, path)
          [] kind = "List" ->
               LET r == collisions(a, flatten(b.items, 1), TRUE)
               IN  Checked(r.result, r.raised, "nested")
          [] OTHER -> Checked(Returns("NoneType", <<>>), "none", "none")

\* ---------------------------------------- check_collision: the calls
\* the sprite that is checked, at the origin
CheckedSprites == {NewSprite(0, <<0, 0>>, r) : r \in 0 .. 1}

\* the other sprites: in reach of the checked sprite or out of it
OtherSprites ==
    {NewSprite(id, <<px, 0>>, r) :
        id \in 1 .. 2, px \in 0 .. MaxCoord + 1, r \in 0 .. 1}

\* the sprites a collection starts with: up to two different objects,
\* the checked sprite possibly among them
Heads(a) ==
    LET S == OtherSprites \cup {a}
    IN  {<<>>} \cup {<<s>> : s \in S}
               \cup {p \in S \X S : p[1].id # p[2].id}

\* a sprite out of reach of every checked sprite
Filler(i) == NewSprite(2 + i, <<0, MaxCoord + 3>>, 0)

\* the lengths on both sides of the limit of the automatic method
Lengths == {0, 1, 2, SIMPLE_CHECK_LIMIT, SIMPLE_CHECK_LIMIT + 1}

\* a SpriteList of n sprites that starts with head (one sprite at most
\* when the list is a long one)
NewSpriteList(n, head, spatial_hash) ==
    [kind |-> "SpriteList", spatial_hash |-> spatial_hash,
     items |-> [i \in 1 .. n |->
                   IF i <= Len(head) THEN head[i] ELSE Filler(i)]]

\* the selections an accelerated lookup may return: sprites of the head
Nearby(head) ==
    {SelectSeq(head, LAMBDA s : s.id \in ids) :
        ids \in SUBSET {head[i].id : i \in 1 .. Len(head)}}

CollisionOp == [name |-> "init", a |-> NewSprite(0, <<0, 0>>, 0),
                kind |-> "none", len |-> 0, head |-> <<>>,
                spatial_hash |-> FALSE, method |-> 0, path |-> "none"]

CollisionCommit(r, o) ==
    /\ result' = r.result
    /\ raised' = r.raised
    /\ op' = [o EXCEPT !.path = r.path]
    /\ steps' = steps + 1
    /\ UNCHANGED <<focus, enable, widgets, _widgets, handlers, application,
                   _created, children, hover, press, drag, disable,
                   last_press, create_log, dispatched, rect, pointlist,
                   toggle>>

CheckCollisionSprite ==
    /\ GeometryRunning
    /\ \E a \in CheckedSprites, b \in OtherSprites,
          type \in {"None", "Sprite"}, method \in 0 .. 3 :
          CollisionCommit(
              geometry_check_collision(a,
                  [kind |-> "Sprite", spatial_hash |-> FALSE,
                   items |-> <<b>>], type, method, <<>>),
              [CollisionOp EXCEPT !.name = "check_collision", !.a = a,
                                  !.kind = "Sprite", !.len = 1,
                                  !.head = <<b>>, !.method = method])

CheckCollisionSpriteList ==
    /\ GeometryRunning
    /\ \E a \in CheckedSprites, n \in Lengths, spatial_hash \in BOOLEAN,
          type \in {"None", "SpriteList"}, method \in 0 .. 3 :
          \E head \in {h \in Heads(a) :
                           Len(h) <= (IF n > 2 THEN 1 ELSE n)} :
             \E nearby \in Nearby(head) :
                CollisionCommit(
                    geometry_check_collision(a,
                        NewSpriteList(n, head, spatial_hash),
                        type, method, nearby),
                    [CollisionOp EXCEPT !.name = "check_collision",
                                        !.a = a, !.kind = "SpriteList",
                                        !.len = n, !.head = head,
                                        !.spatial_hash = spatial_hash,
                                        !.method = method])

\* a list of two lists, the head shared out between them
CheckCollisionList ==
    /\ GeometryRunning
    /\ \E a \in CheckedSprites, type \in {"None", "List"},
          method \in 0 .. 3 :
          \E head \in Heads(a), k \in 0 .. 2 :
             /\ k <= Len(head)
             /\ CollisionCommit(
                    geometry_check_collision(a,
                        [kind |-> "List", spatial_hash |-> FALSE,
                         items |-> <<SubSeq(head, 1, k),
                                     SubSeq(head, k + 1, Len(head))>>],
                        type, method, <<>>),
                    [CollisionOp EXCEPT !.name = "check_collision",
                                        !.a = a, !.kind = "List",
                                        !.len = Len(head), !.head = head,
                                        !.method = method])

NextCollision ==
    \/ CheckCollisionSprite
    \/ CheckCollisionSpriteList
    \/ CheckCollisionList

SpecCollision == Init /\ [][NextCollision]_vars

\* ================================================================ claims
TabOp == op.name = "key_press" /\ op.tab
Returned == raised = "none"

\* the widget a widget's focus property reads as holding focus
has_focus(w) == truthy(focus_get(State, w))

\* the group whose hit region contains the point of the last mouse press
Pressed(w) ==
    /\ op.name = "mouse_press"
    /\ w \in Range(handlers)
    /\ ~disable[w]
    /\ check_collision(children, w, op.point)

\* C1: after Tab (Shift+Tab) with the focus at widgets[i], the focus is
\* widgets[(i+1) mod n] (widgets[(i-1) mod n]).
C1_TabWrapAround ==
    (TabOp /\ Returned /\ index(widgets, op.pre_focus) >= 0) =>
        focus = getitem(widgets,
                        (index(widgets, op.pre_focus)
                            + (IF op.shift THEN -1 ELSE 1)) % Len(widgets))

\* C2: after a Tab traversal step at most one widget of the focusable list
\* reads focus as true.
C2_FocusExclusive ==
    (TabOp /\ Returned) =>
        Cardinality({w \in Range(widgets) : has_focus(w)}) <= 1

\* C3: a non-null focus is a member of a non-empty focusable list, and a
\* widget without children is never the focus.
C3_FocusIsFocusable ==
    /\ (focus # None /\ widgets # <<>>) => focus \in Range(widgets)
    /\ focus # None => children[focus] # <<>>

\* C4: a key press is forwarded as on_key only to a widget that is not
\* disabled and is itself the focused widget.
C4_KeyRouting ==
    op.name = "key_press" =>
        \A i \in 1 .. Len(dispatched) :
            dispatched[i][2] = "on_key" =>
                /\ ~disable[dispatched[i][1]]
                /\ op.pre_focus = dispatched[i][1]

\* C5: requesting focus for a group W (W.focus = True, or a mouse press
\* inside W) ends with the focus at W.
C5_RequestFocus ==
    /\ (op.name = "focus" /\ op.value /\ Returned
            /\ children[op.w] # <<>>) => focus = op.w
    /\ \A w \in Groups : (Pressed(w) /\ Returned) => focus = w

\* C6: an input event leaves hover, press, drag and last_press of a
\* disabled widget unchanged, dispatches no event from it, and its handler
\* leaves the Application's focus unchanged.
InputEventInstances ==
    {[name |-> "key_press", keys |-> k, modifiers |-> m] :
        k \in {TAB, OTHER_KEY}, m \in {0, SHIFT}}
    \cup {[name |-> "key_release", keys |-> k, modifiers |-> m] :
        k \in {TAB, OTHER_KEY}, m \in {0, SHIFT}}
    \cup {[name |-> n, point |-> pt] :
        n \in {"mouse_motion", "mouse_press", "mouse_release",
               "mouse_drag", "mouse_scroll"}, pt \in PointerPoints}

C6_DisabledStep ==
    \A w \in Range(handlers) :
        disable[w] =>
            /\ \A e \in InputEventInstances :
                  /\ handle(State, w, e).focus = focus
                  /\ handle(State, w, e).dispatched = <<>>
            /\ op'.name \in InputEvents =>
                  /\ hover'[w] = hover[w]
                  /\ press'[w] = press[w]
                  /\ drag'[w] = drag[w]
                  /\ last_press'[w] = last_press[w]
                  \* (a Tab also runs the Application's own handler, whose
                  \* focus assignment dispatches on_focus)
                  /\ ~op'.tab =>
                        \A i \in 1 .. Len(dispatched') :
                            dispatched'[i][1] # w

C6_DisabledFrame == [][C6_DisabledStep]_vars

\* a disabled widget, pressed before it was disabled, has just been sent
\* an event at its centre, and kept its state
C6_Witness ==
    \E w \in Range(handlers) :
        /\ disable[w]
        /\ op.name \in {"mouse_release", "mouse_press"}
        /\ op.point = Point(x(w), y(w))
        /\ (op.name = "mouse_release" => press[w])
        /\ (op.name = "mouse_press" => last_press[w] # op.point)

\* C7: until exit, _widgets holds every added widget and widgets holds
\* exactly the added widgets with children; a leaf is never in widgets.
C7_TrackingLists ==
    /\ enable =>
          /\ \A w \in Widget : application[w] => w \in Range(_widgets)
          /\ Range(widgets) =
                {w \in Widget : application[w] /\ children[w] # <<>>}
    /\ Range(widgets) \cap Leaves = {}

C7_Witness ==
    /\ Len(widgets) >= 2
    /\ \E w \in Leaves : w \in Range(_widgets)

C9_CreateOnce ==
    /\ \A w \in Widget :
          /\ ~application[w] => (~_created[w] /\ create_log[w].count = 0)
          /\ application[w] => _created[w]
    /\ op.name = "add" =>
          \A i \in 1 .. Len(op.ws) :
              /\ _created[op.ws[i]]
              /\ create_log[op.ws[i]] =
                    [count |-> 1, application |-> TRUE, listed |-> FALSE]

C9_Witness ==
    /\ op.name = "add"
    /\ Len(op.ws) = 2
    /\ \A i \in 1 .. 2 : create_log[op.ws[i]].count = 1
    /\ \E w \in Widget : ~_created[w]

\* C10: after delete() returns, the widget is disabled, is not the focus
\* and is off the event stack, and no later input event changes its hover,
\* press or drag.
Unregistered(w) == _created[w] /\ w \notin Range(handlers)

C10_DeleteStep ==
    /\ (op'.name = "delete" /\ raised' = "none") =>
          /\ disable'[op'.w]
          /\ focus' # op'.w
          /\ op'.w \notin Range(handlers')
    /\ \A w \in Widget :
          (Unregistered(w) /\ op'.name \in InputEvents) =>
              /\ hover'[w] = hover[w]
              /\ press'[w] = press[w]
              /\ drag'[w] = drag[w]

C11_ClearFocusRaises ==
    (op.name = "focus" /\ ~op.value /\ Len(widgets) <= 1) =>
        /\ raised = "ValueError"
        /\ focus = op.pre_focus

\* the only focusable widget, holding the focus, was assigned focus = False
C11_Witness ==
    /\ op.name = "focus"
    /\ ~op.value
    /\ widgets = <<op.w>>
    /\ op.pre_focus = op.w
    /\ raised = "ValueError"

\* C12: with two focusable widgets of which one has been deleted,
\* assigning focus = False to the remaining one raises ValueError.
C12_DeleteThenClear ==
    (/\ op.name = "focus" /\ ~op.value
     /\ Len(widgets) = 2
     /\ op.w \in Range(widgets) /\ op.w \in Range(handlers)
     /\ \E v \in Range(widgets) : v # op.w /\ Unregistered(v))
        => raised = "ValueError"

\* C13: exit() completes, with every focusable widget deleted, widgets
\* empty and enable false, whatever the number of focusable widgets.
C13_Exit ==
    op.name = "exit" =>
        /\ Returned
        /\ widgets = <<>>
        /\ ~enable
        /\ \A w \in Groups : application[w] => (disable[w] /\ Unregistered(w))

\* C14: once enable is false, a widget that receives an update tick is
\* disabled after it, and a disabled attached widget stays disabled under
\* every later event and tick.
C14_KillSwitchStep ==
    /\ (op'.name = "update" /\ ~enable) =>
          \A w \in Range(handlers) : application[w] => disable'[w]
    /\ ~enable =>
          /\ ~enable'
          /\ \A w \in Widget :
                (application[w] /\ disable[w]) => disable'[w]

C14_KillSwitch == [][C14_KillSwitchStep]_vars

\* after exit() a widget still on the event stack received a tick, which
\* disabled it
C14_Witness ==
    /\ op.name = "update"
    /\ ~enable
    /\ \E w \in Range(handlers) :
          /\ disable[w]
          /\ \E i \in 1 .. Len(dispatched) : dispatched[i] = <<w, "update">>

\* C15: Tab or Shift-Tab with an empty focusable list does not raise and
\* leaves the Application's focus as it was.
C15_TabEmptyList ==
    (TabOp /\ widgets = <<>>) => (Returned /\ focus = op.pre_focus)

\* C16: Tab or Shift-Tab while the focus is None or not in a non-empty
\* focusable list ends with the focus at widgets[0].
C16_TabFallback ==
    (TabOp /\ Returned /\ widgets # <<>>
        /\ index(widgets, op.pre_focus) < 0) => focus = getitem(widgets, 0)

\* the widgets that take input: on the event stack and not disabled
Live(w) == w \in Range(handlers) /\ ~disable[w]

inside(w, point) == check_collision(children, w, point)

\* C17: a mouse press strictly inside a non-disabled widget sets press and
\* records the point as last_press; outside it, the handler leaves press
\* and the Application's focus unchanged and dispatches nothing.
C17_MousePress ==
    /\ \A w \in Widget, p \in PointerPoints :
          Live(w) =>
              LET r == on_mouse_press(State, w, p)
              IN  IF inside(w, p)
                  THEN r.press[w] /\ r.last_press[w] = p
                  ELSE /\ r.press = press
                       /\ r.focus = focus
                       /\ r.dispatched = <<>>
    /\ op.name = "mouse_press" =>
          \A w \in Widget :
              (Live(w) /\ inside(w, op.point)) =>
                  press[w] /\ last_press[w] = op.point

\* a press inside one widget and outside another, which stays unpressed
C17_Witness ==
    /\ op.name = "mouse_press"
    /\ \E w, v \in Widget :
          /\ Live(w) /\ inside(w, op.point)
          /\ press[w] /\ last_press[w] = op.point
          /\ Live(v) /\ ~inside(v, op.point) /\ ~press[v]
          /\ focus # v

\* C18: a mouse release at any position leaves a non-disabled widget with
\* press and drag false.
C18_MouseRelease ==
    /\ \A w \in Widget, p \in PointerPoints :
          Live(w) =>
              LET r == on_mouse_release(State, w, p)
              IN  ~r.press[w] /\ ~r.drag[w]
    /\ op.name = "mouse_release" =>
          \A w \in Widget : Live(w) => (~press[w] /\ ~drag[w])

\* a widget that was pressed at its centre has been sent a release
\* outside its hit region
C18_Witness ==
    /\ op.name = "mouse_release"
    /\ \E w \in Widget :
          /\ Live(w)
          /\ last_press[w] = Point(x(w), y(w))
          /\ ~inside(w, op.point)
          /\ ~press[w]

\* C19: after a mouse motion, hover of a non-disabled widget equals
\* check_collision of the pointer position, whatever hover was before.
C19_MouseMotion ==
    /\ \A w \in Widget, p \in PointerPoints :
          Live(w) =>
              (on_mouse_motion(State, w, p).hover[w] <=> inside(w, p))
    /\ op.name = "mouse_motion" =>
          \A w \in Widget : Live(w) => (hover[w] <=> inside(w, op.point))

\* a motion over one widget, on the edge of it or outside for another
C19_Witness ==
    /\ op.name = "mouse_motion"
    /\ \E w, v \in Widget :
          /\ Live(w) /\ inside(w, op.point) /\ hover[w]
          /\ Live(v) /\ ~inside(v, op.point) /\ ~hover[v]

\* C20: on a mouse drag, a non-disabled widget whose hit region holds the
\* pointer or its last_press gets drag true and is forwarded on_drag;
\* otherwise its drag is unchanged and nothing is forwarded.
C20_MouseDragStep ==
    op'.name = "mouse_drag" =>
        \A w \in Widget :
            Live(w) =>
                LET forwarded ==
                        \E i \in 1 .. Len(dispatched') :
                            dispatched'[i] = <<w, "on_drag">>
                IN  IF inside(w, op'.point) \/ inside(w, last_press[w])
                    THEN drag'[w] /\ forwarded
                    ELSE drag'[w] = drag[w] /\ ~forwarded

C20_MouseDrag == [][C20_MouseDragStep]_vars

\* ------------------------------------------------------- Rect claims
\* (edges and positions in half units: right = left + width reads
\* right = left + 2 * width)

\* C21: after left = L, left reads L and right reads L + width, with
\* width, height and y unchanged; likewise for right, top and bottom.
C21_EdgeConsistency ==
    /\ op.name \in {"left", "right", "top", "bottom"} =>
          /\ _get_width(rect) = _get_width(op.pre)
          /\ _get_height(rect) = _get_height(op.pre)
    /\ op.name = "left" =>
          /\ _get_left(rect) = op.value
          /\ _get_right(rect) = op.value + 2 * _get_width(rect)
          /\ _get_y(rect) = _get_y(op.pre)
    /\ op.name = "right" =>
          /\ _get_right(rect) = op.value
          /\ _get_left(rect) = op.value - 2 * _get_width(rect)
          /\ _get_y(rect) = _get_y(op.pre)
    /\ op.name = "top" =>
          /\ _get_top(rect) = op.value
          /\ _get_bottom(rect) = op.value - 2 * _get_height(rect)
          /\ _get_x(rect) = _get_x(op.pre)
    /\ op.name = "bottom" =>
          /\ _get_bottom(rect) = op.value
          /\ _get_top(rect) = op.value + 2 * _get_height(rect)
          /\ _get_x(rect) = _get_x(op.pre)

\* left was assigned on a Rect of non-zero width, which moved its centre
C21_Witness ==
    /\ op.name = "left"
    /\ _get_width(rect) > 0
    /\ _get_x(rect) # _get_x(op.pre)

\* C22: the edges lie half the size from the centre on either side, so
\* left <= right and bottom <= top whenever width and height are >= 0.
C22_DerivedEdges ==
    /\ _get_right(rect) - _get_left(rect) = 2 * _get_width(rect)
    /\ _get_right(rect) + _get_left(rect) = 2 * _get_x(rect)
    /\ _get_top(rect) - _get_bottom(rect) = 2 * _get_height(rect)
    /\ _get_top(rect) + _get_bottom(rect) = 2 * _get_y(rect)
    /\ _get_width(rect) >= 0 => _get_left(rect) <= _get_right(rect)
    /\ _get_height(rect) >= 0 => _get_bottom(rect) <= _get_top(rect)

\* a Rect with a size, away from the origin after an assignment
C22_Witness ==
    /\ op.name \in {"x", "y", "left", "right", "top", "bottom"}
    /\ _get_width(rect) > 0
    /\ _get_height(rect) > 0
    /\ (_get_x(rect) # 0 \/ _get_y(rect) # 0)

\* C23: a Rect with children reports the size of children[0] (width and
\* height, else content_width and content_height); without children it
\* reports its stored size.
C23_SizeDelegation ==
    /\ rect.children = <<>> =>
          /\ _get_width(rect) = rect._width
          /\ _get_height(rect) = rect._height
    /\ (rect.children # <<>> /\ rect.children[1].has_size) =>
          /\ _get_width(rect) = rect.children[1].width
          /\ _get_height(rect) = rect.children[1].height
    /\ (rect.children # <<>> /\ ~rect.children[1].has_size
            /\ rect.children[1].has_content) =>
          /\ _get_width(rect) = rect.children[1].content_width
          /\ _get_height(rect) = rect.children[1].content_height

\* two children of different sizes on a Rect with a stored size of its own
C23_Witness ==
    /\ Len(rect.children) = 2
    /\ rect._width > 0
    /\ _get_width(rect) # rect._width
    /\ _get_width(rect) # rect.children[2].width

\* the points the hit test is tried on
CollisionPoints ==
    {Point(a, b) : a, b \in (0 - MaxCoord - MaxSize - 1)
                                .. (MaxCoord + MaxSize + 1)}

Abs(n) == IF n < 0 THEN 0 - n ELSE n

\* C24: check_collision(point) holds exactly for the points strictly
\* inside the Rect; a point on an edge does not collide.
C24_CheckCollision ==
    LET cx == _get_x(rect)
        cy == _get_y(rect)
        w == _get_width(rect)
        h == _get_height(rect)
        edges_x == {_get_left(rect), _get_right(rect)}
        edges_y == {_get_top(rect), _get_bottom(rect)}
    IN  \A pt \in CollisionPoints :
            LET hit == Rect_check_collision(rect, pt)
            IN  /\ hit <=> /\ Abs(pt[1] - cx) < w
                           /\ Abs(pt[2] - cy) < h
                /\ (pt[1] \in edges_x \/ pt[2] \in edges_y) => ~hit

\* a Rect with one point strictly inside it and one on its right edge
C24_Witness ==
    /\ \E pt \in CollisionPoints : Rect_check_collision(rect, pt)
    /\ \E pt \in CollisionPoints :
          /\ pt[1] = _get_right(rect)
          /\ pt[2] > _get_bottom(rect)
          /\ pt[2] < _get_top(rect)

\* C25: assigning x or y stores the coordinate and calls _update_position
\* with the new position exactly when the Rect is created; otherwise no
\* call is made and _need_update_position is set.
C25_PositionHook ==
    op.name \in {"x", "y"} =>
        /\ op.name = "x" => rect._x = op.value /\ rect._y = op.pre._y
        /\ op.name = "y" => rect._y = op.value /\ rect._x = op.pre._x
        /\ IF op.pre._created
           THEN /\ rect.position_updates =
                      Append(op.pre.position_updates, <<rect._x, rect._y>>)
                /\ rect._need_update_position
                      = op.pre._need_update_position
           ELSE /\ rect.position_updates = op.pre.position_updates
                /\ rect._need_update_position

\* x was assigned on a created Rect and the hook was called
C25_Witness ==
    /\ op.name = "x"
    /\ rect._created
    /\ rect.position_updates = <<<<op.value, rect._y>>>>
    /\ ~rect._need_update_position

\* C26: snap_to_point within the distance moves the centre to the point
\* and returns True when move is set, returns the point and leaves the
\* position when it is not; farther away the position is left as it is.
C26_SnapToPoint ==
    op.name = "snap_to_point" =>
        LET near == get_distance_le(<<op.pre._x, op.pre._y>>, op.point,
                                    op.distance)
            unmoved == rect._x = op.pre._x /\ rect._y = op.pre._y
        IN  /\ (near /\ op.move) =>
                  /\ rect._x = op.point[1]
                  /\ rect._y = op.point[2]
                  /\ result = Returns("bool", <<TRUE>>)
            /\ (near /\ ~op.move) =>
                  unmoved /\ result = Returns("Point", op.point)
            /\ ~near => unmoved

\* the Rect was asked for a snap without a move at exactly the distance
C26_Witness ==
    /\ op.name = "snap_to_point"
    /\ ~op.move
    /\ op.distance > 0
    /\ result = Returns("Point", op.point)
    /\ (op.point[1] - rect._x) * (op.point[1] - rect._x)
         + (op.point[2] - rect._y) * (op.point[2] - rect._y)
           = (2 * op.distance) * (2 * op.distance)

\* C27: is_colliding(other) returns a boolean and does not raise: true
\* exactly when the two boxes overlap.
C27_IsColliding ==
    op.name = "is_colliding" =>
        /\ raised = "none"
        /\ result.type = "bool"
        /\ result.value[1] <=>
               /\ _get_right(rect) >= _get_left(op.value)
               /\ _get_left(rect) <= _get_right(op.value)
               /\ _get_top(rect) >= _get_bottom(op.value)
               /\ _get_bottom(rect) <= _get_top(op.value)

\* --------------------------------------------------- geometry claims
\* C28: p + q and p - q set p to the componentwise result, leave q as it
\* was and return the resulting (x, y) tuple.
C28_PointArithmetic ==
    (op.name \in {"__add__", "__sub__"} /\ op.operand = "Point") =>
        LET sign == IF op.name = "__add__" THEN 1 ELSE -1
            px == op.pre.x + sign * pointlist[2].x
            py == op.pre.y + sign * pointlist[2].y
        IN  /\ pointlist[1] = NewPoint(px, py)
            /\ raised = "none"
            /\ result = Returns("tuple", <<px, py>>)

\* C29: on a Point of length zero, normalized() and
\* perpendicular_normal() leave x and y and return the position without
\* an error.
C29_ZeroLength ==
    (op.name \in {"normalized", "perpendicular_normal"}
        /\ op.pre = NewPoint(0, 0)) =>
        /\ pointlist[1] = NewPoint(0, 0)
        /\ raised = "none"
        /\ result = Returns("tuple", <<0, 0>>)

\* two unit squares that share an edge and nothing else
ShareOnlyAnEdge(a, b) ==
    \/ Abs(a[1][1] - b[1][1]) = 1 /\ a[1][2] = b[1][2]
    \/ Abs(a[1][2] - b[1][2]) = 1 /\ a[1][1] = b[1][1]

\* C30: for two unit squares that share only an edge,
\* are_polygons_intersecting returns true without shapely and false with
\* it.
C30_TouchingSquares ==
    (op.name = "are_polygons_intersecting" /\ ShareOnlyAnEdge(op.a, op.b))
        => /\ raised = "none"
           /\ result = Returns("bool", <<~op.shapely>>)

\* a check of a sprite list with the automatic method has returned or
\* raised
AutoChecked ==
    /\ op.name = "check_collision"
    /\ op.kind = "SpriteList"
    /\ op.method = 0

\* C31: with method 0 a sprite list of at most 1500 sprites is checked
\* sprite by sprite; only a longer one is checked through the spatial hash
\* or the GPU.
C31_AutoMethod ==
    AutoChecked =>
        /\ op.len <= SIMPLE_CHECK_LIMIT => op.path = "simple"
        /\ op.path \in {"spatial", "gpu"} => op.len > SIMPLE_CHECK_LIMIT

\* C31, amended: with method 0 a sprite list that has a spatial hash is
\* looked up through it whatever its length; without one it is checked
\* sprite by sprite up to 1500 sprites and through the GPU beyond.
C31_AutoMethodAmended ==
    AutoChecked =>
        op.path = IF op.spatial_hash THEN "spatial"
                  ELSE IF op.len <= SIMPLE_CHECK_LIMIT THEN "simple"
                  ELSE "gpu"

\* a list within the limit that has a spatial hash was looked up through it
C31_Witness ==
    /\ AutoChecked
    /\ op.spatial_hash
    /\ op.len \in 1 .. SIMPLE_CHECK_LIMIT
    /\ op.path = "spatial"
    /\ raised = "none"

\* the point lies strictly inside (outside) the box polygon
StrictlyInside(point, polygon) ==
    /\ polygon # <<>>
    /\ 0 < point.x /\ point.x < polygon[3][1]
    /\ 0 < point.y /\ point.y < polygon[3][2]

StrictlyOutside(point, polygon) ==
    \/ polygon = <<>>
    \/ point.x < 0 \/ point.x > polygon[3][1]
    \/ point.y < 0 \/ point.y > polygon[3][2]

\* C32: is_point_in_polygon returns without raising: true for a point
\* inside the polygon, false for a point outside it and for an empty
\* polygon.
C32_PointInPolygon ==
    op.name = "is_point_in_polygon" =>
        /\ raised = "none"
        /\ result.type = "bool"
        /\ StrictlyInside(op.point, op.a) => result.value = <<TRUE>>
        /\ StrictlyOutside(op.point, op.a) => result.value = <<FALSE>>

\* C37: the point of a Rect reads as (x, y): after x, y or an edge is
\* assigned, and after the point is assigned.
C37_CentrePoint ==
    op.name \in {"x", "y", "left", "right", "top", "bottom", "point"} =>
        _get_point(rect) = Point(_get_x(rect), _get_y(rect))

\* C38: perpendicular() turns (x, y) into (-y, x) and returns it: the dot
\* product with the old value is 0 and the squared length is unchanged.
C38_Perpendicular ==
    op.name = "perpendicular" =>
        LET new == pointlist[1]
        IN  /\ raised = "none"
            /\ new.x = 0 - op.pre.y
            /\ new.y = op.pre.x
            /\ new.x * op.pre.x + new.y * op.pre.y = 0
            /\ new.x * new.x + new.y * new.y
                   = op.pre.x * op.pre.x + op.pre.y * op.pre.y

\* C39: check_collision(a, b) with b a sprite list or a nested list that
\* contains a returns a list of collisions without a.
C39_NoSelfCollision ==
    (/\ op.name = "check_collision"
     /\ op.kind \in {"SpriteList", "List"}
     /\ \E i \in 1 .. Len(op.head) : op.head[i].id = op.a.id) =>
        /\ raised = "none"
        /\ result.type = "list"
        /\ \A i \in 1 .. Len(result.value) : result.value[i].id # op.a.id

\* the widgets whose handlers dispatched during the last event, in order
Delivered == [i \in 1 .. Len(dispatched) |-> dispatched[i][1]]

RECURSIVE Reverse(_)
Reverse(seq) ==
    IF seq = <<>> THEN <<>> ELSE Reverse(Tail(seq)) \o <<Head(seq)>>

\* the widgets of a list that answer the last event: attached to the
\* window, and for a mouse release not disabled
Answering(order) ==
    SelectSeq(order, LAMBDA w : /\ w \in Range(handlers)
                                /\ (op.name = "update" \/ ~disable[w]))

C34_FocusFalseStep ==
    (/\ steps' = steps + 1
     /\ op'.name = "focus"
     /\ ~op'.value
     /\ op'.w \in Range(widgets)
     /\ Len(widgets) >= 2) =>
        LET i == index(widgets, op'.w)
        IN  /\ raised' = "none"
            /\ focus' = widgets[((i - 1) % Len(widgets)) + 1]
            /\ dispatched' = <<>>
            /\ UNCHANGED <<enable, widgets, _widgets, handlers, application,
                           _created, children, hover, press, drag, disable,
                           last_press, create_log>>

C35_DisabledNeverFocus ==
    (raised = "none" /\ focus # None) => ~disable[focus]

\* the window's key press of Tab, with or without Shift
press_tab(s, modifiers) ==
    Application_on_key_press(
        broadcast(s, s.handlers, 1,
                  [name |-> "key_press", keys |-> TAB,
                   modifiers |-> modifiers]),
        TAB, modifiers)

RECURSIVE TabTimes(_, _)
TabTimes(s, k) == IF k = 0 THEN s ELSE TabTimes(press_tab(s, 0), k - 1)

\* C36: from a focus in a non-empty focusable list, Tab then Shift-Tab,
\* Shift-Tab then Tab, and Tab pressed len(widgets) times each return the
\* focus to the widget that held it.
C36_TabInvertible ==
    (raised = "none" /\ widgets # <<>> /\ focus \in Range(widgets)) =>
        /\ press_tab(press_tab(State, 0), SHIFT).raised = "none"
        /\ press_tab(press_tab(State, 0), SHIFT).focus = focus
        /\ press_tab(press_tab(State, SHIFT), 0).focus = focus
        /\ TabTimes(State, Len(widgets)).focus = focus

\* a switch of the Toggle is under way
SwitchRequested == toggle.switch /\ ~toggle.disable

\* the switch is complete: the sides have changed places and on_toggle
\* was dispatched once
SwitchCompleted ==
    /\ ~toggle.switch
    /\ toggle.on_left = ~ToggleHistory.from_left
    /\ toggle.on_right = ToggleHistory.from_left
    /\ ToggleHistory.toggled = 1

\* a tick leaves in value the side the Toggle was on when the tick began
TickValue ==
    op'.name = "update" => toggle'.value = <<toggle.on_left>>

====
